---- MODULE Spec2Model ----
(***************************************************************************)
(* The observability gateway of atlaspulse-n18                             *)
(* (src/services/gateway/src/index.js): the target registry parsed from    *)
(* SERVICE_TARGETS, the in-memory log buffer (addLog, GET /obs/logs), the  *)
(* health aggregation (GET /obs/healthgraph) and the PromQL proxy          *)
(* (GET /obs/query).                                                       *)
(*                                                                         *)
(* JavaScript strings that the code takes apart (the configuration string, *)
(* target names and URLs) are sequences of one-character strings; the      *)
(* string literals the code only passes around are TLA+ strings.           *)
(***************************************************************************)
EXTENDS Integers, Sequences, FiniteSets, TLC

VARIABLES
    pc,             \* "running" once the module body has run, "crashed" if it threw
    SERVICE_TARGETS, \* the configuration string (index.js:11)
    parsedTargets,  \* the target registry (index.js:13)
    logsBuffer,     \* the log buffer (index.js:57)
    now,            \* the wall clock read by Date.now() / new Date(), in ms
    calls,          \* the /obs/healthgraph requests, by request id
    queries,        \* the /obs/query requests, by request id
    logsResponse,   \* body of the last GET /obs/logs response
    appended,       \* history: every entry addLog has pushed, in push order
    origin          \* history: who pushed appended[k]

vars == <<pc, SERVICE_TARGETS, parsedTargets, logsBuffer, now, calls, queries, logsResponse,
          appended, origin>>

---------------------------------------------------------------------------
(* Bounds of the exploration.                                              *)

\* /obs/healthgraph requests served in one behaviour.
MaxCalls == 1
\* /obs/query requests served in one behaviour.
MaxQueries == 1
\* The clock advances in steps of TickMs and stops at MaxTicks steps.
TickMs == 2000
MaxTicks == 1
\* /obs/healthgraph requests that may be in flight together.
MaxOverlap == 2
\* The gateway has served BootSlack fewer PromQL queries than fill the buffer
\* when the exploration starts from a warm process.
BootSlack == 2

---------------------------------------------------------------------------
(* JavaScript string helpers.                                              *)

Min(a, b) == IF a <= b THEN a ELSE b

\* Index of the first occurrence of character c in s, 0 if there is none.
IndexOf(s, c) ==
    IF \E k \in 1..Len(s) : s[k] = c
    THEN CHOOSE k \in 1..Len(s) : s[k] = c /\ \A j \in 1..(k - 1) : s[j] # c
    ELSE 0

\* String.prototype.split with a one-character separator.
RECURSIVE Split(_, _)
Split(s, sep) ==
    LET k == IndexOf(s, sep)
    IN  IF k = 0 THEN <<s>>
        ELSE <<SubSeq(s, 1, k - 1)>> \o Split(SubSeq(s, k + 1, Len(s)), sep)

\* String.prototype.trim.
RECURSIVE Trim(_)
Trim(s) ==
    IF s = <<>> THEN s
    ELSE IF Head(s) = " " THEN Trim(Tail(s))
    ELSE IF s[Len(s)] = " " THEN Trim(SubSeq(s, 1, Len(s) - 1))
    ELSE s

\* Array.prototype.filter(Boolean) on an array of strings: drops the empty ones.
FilterBoolean(ss) == SelectSeq(ss, LAMBDA x : x # <<>>)

\* [...a].reverse()
Reverse(s) == [k \in 1..Len(s) |-> s[Len(s) + 1 - k]]

---------------------------------------------------------------------------
(* Target registry, index.js:11-18.                                        *)

\* "users=http://users-service:4001"
DEFAULT_SERVICE_TARGETS ==
    <<"u","s","e","r","s","=","h","t","t","p",":","/","/","u","s","e","r","s",
      "-","s","e","r","v","i","c","e",":","4","0","0","1">>

\* process.env.SERVICE_TARGETS || "users=http://users-service:4001"
\* (an unset variable and an empty one are both falsy).
ServiceTargets(env) == IF env = <<>> THEN DEFAULT_SERVICE_TARGETS ELSE env

\* const [name, url] = pair.split("=");  url is undefined without a "=".
PairName(pair) == Split(pair, "=")[1]
PairHasUrl(pair) == Len(Split(pair, "=")) >= 2
PairUrl(pair) == Split(pair, "=")[2]

\* The .map callback: { name: name.trim(), baseUrl: url.trim() }.
ParsePair(pair) == [name |-> Trim(PairName(pair)), baseUrl |-> Trim(PairUrl(pair))]

\* SERVICE_TARGETS.split(",").filter(Boolean).map(...): url.trim() throws a
\* TypeError on the first pair without "=", which aborts the module body.
ParseTargets(raw) ==
    LET pairs == FilterBoolean(Split(raw, ","))
    IN  IF \E k \in 1..Len(pairs) : ~PairHasUrl(pairs[k])
        THEN [threw |-> TRUE, targets |-> <<>>]
        ELSE [threw |-> FALSE,
              targets |-> [k \in 1..Len(pairs) |-> ParsePair(pairs[k])]]

\* Values of the SERVICE_TARGETS environment variable explored.
EnvTargets ==
    { <<>>,                                         \* unset: the default
      <<"a","=","u",",","b","=","v">>,              \* a=u,b=v
      <<" ","a"," ","=","u",","," ","a","=","v">>,  \* " a =u, a=v": one name twice
      <<"=","u",",","b","=","v">>,                  \* =u,b=v: an empty name
      <<"a","=","u","=","v">>,                      \* a=u=v: a URL with a "=" in it
      <<",">>,                                      \* no pair at all
      <<"a">> }                                     \* a pair without "="

---------------------------------------------------------------------------
(* Log buffer, index.js:57-70.                                             *)

MAX_LOGS == 200

\* "gateway"
GATEWAY == <<"g","a","t","e","w","a","y">>

\* The object addLog pushes: entry.level || "info", entry.service || "gateway",
\* entry.msg || "", stamped with the current time.
LogRecord(entry, t) ==
    [ts      |-> t,
     level   |-> IF entry.level = "" THEN "info" ELSE entry.level,
     service |-> IF entry.service = <<>> THEN GATEWAY ELSE entry.service,
     msg     |-> IF entry.msg = <<>> THEN <<>> ELSE entry.msg]

\* addLog writing at an index read before another append: the newest entry is
\* overwritten instead of being followed.
addLog_StaleIndex(buf, entry, t) ==
    IF buf = <<>> THEN <<LogRecord(entry, t)>>
    ELSE [buf EXCEPT ![Len(buf)] = LogRecord(entry, t)]

\* addLog evicting as soon as the buffer is full: shift at MAX_LOGS entries.
addLog_ShiftWhenFull(buf, entry, t) ==
    LET pushed == Append(buf, LogRecord(entry, t))
    IN  IF Len(pushed) >= MAX_LOGS THEN Tail(pushed) ELSE pushed

\* addLog from the other end: unshift, then pop once if over MAX_LOGS.
addLog_Unshift(buf, entry, t) ==
    LET pushed == <<LogRecord(entry, t)>> \o buf
    IN  IF Len(pushed) > MAX_LOGS THEN SubSeq(pushed, 1, Len(pushed) - 1) ELSE pushed

\* addLog without the eviction.
addLog_NoShift(buf, entry, t) == Append(buf, LogRecord(entry, t))

\* addLog evicting with pop instead of shift.
addLog_Pop(buf, entry, t) ==
    LET pushed == Append(buf, LogRecord(entry, t))
    IN  IF Len(pushed) > MAX_LOGS THEN SubSeq(pushed, 1, Len(pushed) - 1) ELSE pushed

\* addLog(entry) at time t on buffer buf: push, then shift once if over MAX_LOGS.
addLog(buf, entry, t) ==
    LET pushed == Append(buf, LogRecord(entry, t))
    IN  IF Len(pushed) > MAX_LOGS THEN Tail(pushed) ELSE pushed

\* index.js:73
StartupEntry == [level |-> "info", service |-> GATEWAY, msg |-> <<"Gateway started">>]

---------------------------------------------------------------------------
(* Health aggregation, GET /obs/healthgraph, index.js:128-174.             *)

\* axios.get(..., { timeout: 2000 })
PROBE_TIMEOUT == 2000

\* r.data of a 2xx reply.  kind "object": a JSON object, with or without a
\* status field; kind "text": a body that is not JSON, which axios hands over
\* as the raw string without throwing.
Bodies ==
    { [kind |-> "object", has |-> TRUE,  status |-> "ok"],
      [kind |-> "object", has |-> TRUE,  status |-> "degraded"],
      [kind |-> "object", has |-> TRUE,  status |-> ""],
      [kind |-> "object", has |-> FALSE, status |-> ""],
      [kind |-> "text",   has |-> FALSE, status |-> ""] }

\* err.message of a rejected axios.get before the timeout: connection refused,
\* a non-2xx answer.
FailureMessages == { "connect ECONNREFUSED", "Request failed with status code 500" }
TimeoutMessage == "timeout of 2000ms exceeded"

Resolved(data) == [ok |-> TRUE, data |-> data, message |-> ""]
Rejected(message) == [ok |-> FALSE, data |-> [kind |-> "none", has |-> FALSE, status |-> ""],
                      message |-> message]

\* The status normalized: anything but "ok" becomes "unknown".
ProbeStatus_Normalized(data) ==
    IF data.kind = "object" /\ data.has /\ data.status = "ok"
    THEN data.status
    ELSE "unknown"

\* r.data?.status || "unknown": the field's value unless it is missing or falsy.
ProbeStatus(data) ==
    IF data.kind = "object" /\ data.has /\ data.status # ""
    THEN data.status
    ELSE "unknown"

NoValue == [none |-> TRUE]
NoReply == [none |-> TRUE]

\* The callback with a catch branch that logs and rethrows.
ProbeResult_Rethrow(svc, start, reply, t) ==
    IF reply.ok
    THEN [state |-> "fulfilled",
          log   |-> [level |-> "info", service |-> svc.name,
                     msg |-> <<"Healthcheck ok", t - start>>],
          value |-> [name |-> svc.name, url |-> svc.baseUrl,
                     status |-> ProbeStatus(reply.data),
                     latencyMs |-> t - start, lastCheck |-> t]]
    ELSE [state |-> "rejected",
          log   |-> [level |-> "error", service |-> svc.name,
                     msg |-> <<"Healthcheck failed", t - start, reply.message>>],
          value |-> NoValue]

\* The callback with a cache of outcomes by target name: the outcome of the
\* first probe of a target is returned for every later probe of it.
ProbeResult_Cached(svc, start, reply, t) ==
    LET fresh == [name |-> svc.name, url |-> svc.baseUrl,
                  status |-> IF reply.ok THEN ProbeStatus(reply.data) ELSE "down",
                  latencyMs |-> t - start, lastCheck |-> t]
        hits == { p \in (DOMAIN calls) \X (1..2) :
                    /\ p[2] \in 1..Len(calls[p[1]].probes)
                    /\ calls[p[1]].probes[p[2]].state = "fulfilled"
                    /\ calls[p[1]].probes[p[2]].value.name = svc.name }
    IN  [state |-> "fulfilled",
         log   |-> [level |-> IF reply.ok THEN "info" ELSE "error", service |-> svc.name,
                    msg |-> <<"Healthcheck", t - start>>],
         value |-> IF hits = {} THEN fresh
                   ELSE LET p == CHOOSE h \in hits : TRUE
                        IN  calls[p[1]].probes[p[2]].value]

\* The value a probe's promise is fulfilled with and the entry it logs
\* (index.js:132-166): the try branch for a resolved axios.get, the catch branch
\* for a rejected one.  Both branches return, so the promise is never rejected.
ProbeResult(svc, start, reply, t) ==
    IF reply.ok
    THEN [state |-> "fulfilled",
          log   |-> [level |-> "info", service |-> svc.name,
                     msg |-> <<"Healthcheck ok", t - start>>],
          value |-> [name |-> svc.name, url |-> svc.baseUrl,
                     status |-> ProbeStatus(reply.data),
                     latencyMs |-> t - start, lastCheck |-> t]]
    ELSE [state |-> "fulfilled",
          log   |-> [level |-> "error", service |-> svc.name,
                     msg |-> <<"Healthcheck failed", t - start, reply.message>>],
          value |-> [name |-> svc.name, url |-> svc.baseUrl,
                     status |-> "down",
                     latencyMs |-> t - start, error |-> reply.message,
                     lastCheck |-> t]]

NoResponse == [sent |-> FALSE]

\* The probes issued one after the other: only the first request is out.
IssueProbes_First(targets, t) ==
    [i \in 1..Min(1, Len(targets)) |->
        [state |-> "pending", start |-> t, reply |-> NoReply, value |-> NoValue]]

\* parsedTargets.map(async (svc) => ...): every callback runs up to its await,
\* so all requests are issued, at time t, before the handler awaits anything.
IssueProbes(targets, t) ==
    [i \in 1..Len(targets) |->
        [state |-> "pending", start |-> t, reply |-> NoReply, value |-> NoValue]]

\* Promise.any in place of Promise.all: fulfilled with the first fulfilment.
PromiseAll_Any(probes) ==
    IF probes = <<>> \/ \E i \in 1..Len(probes) : probes[i].state = "fulfilled"
    THEN "fulfilled"
    ELSE "pending"

\* State of the promise Promise.all returns for the probes' promises.
PromiseAll(probes) ==
    IF \E i \in 1..Len(probes) : probes[i].state = "rejected" THEN "rejected"
    ELSE IF \A i \in 1..Len(probes) : probes[i].state = "fulfilled" THEN "fulfilled"
    ELSE "pending"

\* The values collected by pushing each one as its promise settles.
PromiseAllValues_ByCompletion(probes, order) ==
    [k \in 1..Len(probes) |-> probes[order[k]].value]

\* The array Promise.all resolves with: the values by index of the input array;
\* order is the order in which the promises settled.
PromiseAllValues(probes, order) == [i \in 1..Len(probes) |-> probes[i].value]

\* The handler after `await Promise.all(...)`, run in the same turn of the
\* event loop as the settlement that ends the wait: res.json({timestamp,
\* services}) if the await returns, no response if it throws.
Continue(call, t) ==
    IF call.st # "running" THEN call
    ELSE IF PromiseAll(call.probes) = "pending" THEN call
    ELSE IF PromiseAll(call.probes) = "fulfilled"
         THEN [call EXCEPT !.st = "responded",
                           !.response = [sent |-> TRUE, timestamp |-> t,
                                         services |-> PromiseAllValues(call.probes, call.order)]]
         ELSE [call EXCEPT !.st = "faulted"]

IdleCall == [st |-> "idle", probes |-> <<>>, order |-> <<>>, response |-> NoResponse]

CallIds == 1..MaxCalls
Horizon == MaxTicks * TickMs

\* A request arrives; ids are handed out in order of arrival.
HealthgraphRequest(c) ==
    /\ pc = "running"
    /\ calls[c].st = "idle"
    /\ \A d \in DOMAIN calls : d < c => calls[d].st # "idle"
    /\ now + PROBE_TIMEOUT <= Horizon
    /\ calls' = [calls EXCEPT ![c] =
                    Continue([st |-> "running",
                              probes |-> IssueProbes(parsedTargets, now),
                              order |-> <<>>,
                              response |-> NoResponse], now)]
    /\ UNCHANGED <<pc, SERVICE_TARGETS, parsedTargets, logsBuffer, now, queries, logsResponse,
                   appended, origin>>

\* axios.get of probe i of request c settles with reply: the rest of the
\* callback runs (addLog, return), then whatever was waiting for the promise.
ProbeSettle(c, i, reply) ==
    LET call == calls[c]
        res  == ProbeResult(parsedTargets[i], call.probes[i].start, reply, now)
        done == [call EXCEPT !.probes[i].state = res.state,
                             !.probes[i].reply = reply,
                             !.probes[i].value = res.value,
                             !.order = Append(@, i)]
    IN  /\ logsBuffer' = addLog(logsBuffer, res.log, now)
        /\ appended' = Append(appended, LogRecord(res.log, now))
        /\ origin' = Append(origin, <<"probe", c, i>>)
        /\ calls' = [calls EXCEPT ![c] = Continue(done, now)]
        /\ UNCHANGED <<pc, SERVICE_TARGETS, parsedTargets, now, queries, logsResponse>>

Pending(c, i) ==
    /\ pc = "running"
    /\ i \in 1..Len(calls[c].probes)
    /\ calls[c].probes[i].state = "pending"

\* The target answers 2xx with body data before the timeout.
ProbeResponds(c, i, data) ==
    /\ Pending(c, i)
    /\ now - calls[c].probes[i].start < PROBE_TIMEOUT
    /\ ProbeSettle(c, i, Resolved(data))

\* The request fails with err.message m before the timeout.
ProbeFails(c, i, m) ==
    /\ Pending(c, i)
    /\ now - calls[c].probes[i].start < PROBE_TIMEOUT
    /\ ProbeSettle(c, i, Rejected(m))

\* axios.get without the timeout option: an unanswered request stays pending.
ProbeTimesOut_Never(c, i) ==
    /\ Pending(c, i)
    /\ FALSE
    /\ UNCHANGED vars

\* No answer within the timeout: axios rejects.
ProbeTimesOut(c, i) ==
    /\ Pending(c, i)
    /\ now - calls[c].probes[i].start >= PROBE_TIMEOUT
    /\ ProbeSettle(c, i, Rejected(TimeoutMessage))

---------------------------------------------------------------------------
(* PromQL proxy, GET /obs/query, index.js:98-125.                          *)

\* Values of the query parameter; "" is a missing or empty one (both falsy).
QueryParams == { "", "up" }
QueryErrors == { "Request failed with status code 400", "connect ECONNREFUSED" }

QueryIds == 1..MaxQueries
IdleQuery == [st |-> "idle", query |-> "", upstream |-> 0, status |-> 0]

QueryOkEntry(query) ==
    [level |-> "info", service |-> GATEWAY, msg |-> <<"PromQL query executed", query>>]
\* The catch branch logging without a level: addLog defaults it to "info".
QueryFailedEntry_NoLevel(query, message) ==
    [level |-> "", service |-> GATEWAY,
     msg |-> <<"PromQL query failed", query, message>>]

QueryFailedEntry(query, message) ==
    [level |-> "error", service |-> GATEWAY,
     msg |-> <<"PromQL query failed", query, message>>]

\* The handler logging the rejection: a request without a query also pushes
\* an entry before its 400.
QueryRequest_LogsRejection(q, query) ==
    /\ pc = "running"
    /\ queries[q].st = "idle"
    /\ \A d \in QueryIds : d < q => queries[d].st # "idle"
    /\ queries' = [queries EXCEPT ![q] =
                     IF query = ""
                     THEN [st |-> "done", query |-> query, upstream |-> 0, status |-> 400]
                     ELSE [st |-> "awaiting", query |-> query, upstream |-> 1, status |-> 0]]
    /\ logsBuffer' =
          IF query = ""
          THEN addLog(logsBuffer, [level |-> "error", service |-> GATEWAY,
                                   msg |-> <<"Missing PromQL query">>], now)
          ELSE logsBuffer
    /\ UNCHANGED <<pc, SERVICE_TARGETS, parsedTargets, now, calls, logsResponse,
                   appended, origin>>

\* The handler up to its await: 400 without a query, else one upstream call.
QueryRequest(q, query) ==
    /\ pc = "running"
    /\ queries[q].st = "idle"
    /\ \A d \in QueryIds : d < q => queries[d].st # "idle"
    /\ queries' = [queries EXCEPT ![q] =
                     IF query = ""
                     THEN [st |-> "done", query |-> query, upstream |-> 0, status |-> 400]
                     ELSE [st |-> "awaiting", query |-> query, upstream |-> 1, status |-> 0]]
    /\ UNCHANGED <<pc, SERVICE_TARGETS, parsedTargets, logsBuffer, now, calls, logsResponse,
                   appended, origin>>

QuerySettle(q, entry, status) ==
    /\ logsBuffer' = addLog(logsBuffer, entry, now)
    /\ appended' = Append(appended, LogRecord(entry, now))
    /\ origin' = Append(origin, <<"query", q>>)
    /\ queries' = [queries EXCEPT ![q].st = "done", ![q].status = status]
    /\ UNCHANGED <<pc, SERVICE_TARGETS, parsedTargets, now, calls, logsResponse>>

\* Prometheus answers: log, relay r.data.
QueryResolves(q) ==
    /\ pc = "running"
    /\ queries[q].st = "awaiting"
    /\ QuerySettle(q, QueryOkEntry(queries[q].query), 200)

\* The upstream call fails: log, 500.
QueryRejects(q) ==
    /\ pc = "running"
    /\ queries[q].st = "awaiting"
    /\ \E m \in QueryErrors : QuerySettle(q, QueryFailedEntry(queries[q].query, m), 500)

---------------------------------------------------------------------------
(* Log listing, GET /obs/logs, index.js:177-181.                           *)

\* The copy sent as it is, oldest first.
Listing_Unreversed(buf) == [ring |-> buf, items |-> buf]

\* logsBuffer.reverse() without the copy: the buffer itself is reversed.
Listing_InPlace(buf) == [ring |-> Reverse(buf), items |-> Reverse(buf)]

\* const items = [...logsBuffer].reverse(): the buffer as the handler leaves it
\* and the array it sends.
Listing(buf) == [ring |-> buf, items |-> Reverse(buf)]

GetLogs ==
    /\ pc = "running"
    /\ logsBuffer' = Listing(logsBuffer).ring
    /\ logsResponse' = [sent |-> TRUE, items |-> Listing(logsBuffer).items,
                        at |-> Len(appended)]
    /\ UNCHANGED <<pc, SERVICE_TARGETS, parsedTargets, now, calls, queries, appended, origin>>

---------------------------------------------------------------------------
(* The clock.                                                              *)

Tick ==
    /\ pc = "running"
    /\ now + TickMs <= Horizon
    /\ now' = now + TickMs
    /\ UNCHANGED <<pc, SERVICE_TARGETS, parsedTargets, logsBuffer, calls, queries, logsResponse,
                   appended, origin>>

---------------------------------------------------------------------------
(* Start of the process: the module body, index.js:1-73, possibly followed *)
(* by a run of PromQL queries served before the exploration starts.        *)

WarmEntry(j) ==
    IF j % 2 = 1 THEN QueryOkEntry("up")
    ELSE QueryFailedEntry("up", "connect ECONNREFUSED")

\* The entries passed to addLog by the start of the process and n warm-up queries.
WarmEntries(n) == [j \in 1..(n + 1) |-> IF j = 1 THEN StartupEntry ELSE WarmEntry(j - 1)]

\* The buffer after addLog has been called on each of entries in turn, at time t
\* (by halves, to keep the recursion shallow).
RECURSIVE AddLogs(_, _, _)
AddLogs(buf, entries, t) ==
    IF entries = <<>> THEN buf
    ELSE IF Len(entries) = 1 THEN addLog(buf, entries[1], t)
    ELSE LET h == Len(entries) \div 2
             left == AddLogs(buf, SubSeq(entries, 1, h), t)
         IN  \* the test makes the evaluator finish the first half before the second
             IF Len(left) >= 0
             THEN AddLogs(left, SubSeq(entries, h + 1, Len(entries)), t)
             ELSE left

WarmBuffer(n) == AddLogs(<<>>, WarmEntries(n), 0)
WarmHistory(n) == [j \in 1..(n + 1) |-> LogRecord(WarmEntries(n)[j], 0)]

WarmCounts == { 0, MAX_LOGS - BootSlack }

\* The process started with one of envs in SERVICE_TARGETS, after one of warm
\* numbers of warm-up queries, about to serve the /obs/healthgraph requests ids.
InitFrom(envs, warm, ids) ==
    \E env \in envs, n \in warm :
        LET parsed == ParseTargets(ServiceTargets(env))
        IN  /\ now = 0
            /\ SERVICE_TARGETS = ServiceTargets(env)
            /\ calls = [c \in ids |-> IdleCall]
            /\ queries = [q \in QueryIds |-> IdleQuery]
            /\ logsResponse = [sent |-> FALSE, items |-> <<>>, at |-> 0]
            /\ IF parsed.threw
               THEN /\ pc = "crashed"
                    /\ parsedTargets = <<>>
                    /\ logsBuffer = <<>>
                    /\ appended = <<>>
                    /\ origin = <<>>
               ELSE /\ pc = "running"
                    /\ parsedTargets = parsed.targets
                    /\ logsBuffer = WarmBuffer(n)
                    /\ appended = WarmHistory(n)
                    /\ origin = [j \in 1..(n + 1) |->
                                    IF j = 1 THEN <<"startup">> ELSE <<"warmup">>]

Init == InitFrom(EnvTargets, WarmCounts, CallIds)

\* Positions in the registries of EnvTargets.
ProbeIds == 1..2

Next ==
    \/ Tick
    \/ \E c \in CallIds : HealthgraphRequest(c)
    \/ \E c \in CallIds, i \in ProbeIds, data \in Bodies : ProbeResponds(c, i, data)
    \/ \E c \in CallIds, i \in ProbeIds, m \in FailureMessages : ProbeFails(c, i, m)
    \/ \E c \in CallIds, i \in ProbeIds : ProbeTimesOut(c, i)
    \/ \E q \in QueryIds, query \in QueryParams : QueryRequest(q, query)
    \/ \E q \in QueryIds : QueryResolves(q)
    \/ \E q \in QueryIds : QueryRejects(q)
    \/ GetLogs

Spec == Init /\ [][Next]_vars

\* The same process under the scheduling the runtime provides: the clock keeps
\* advancing, and a timer that is due fires (axios rejects a request that has
\* been unanswered for PROBE_TIMEOUT). Nothing obliges a target to answer.
LiveEnvs == { <<>>, <<"a","=","u",",","b","=","v">> }

InitLive == InitFrom(LiveEnvs, {0}, CallIds)

Fairness ==
    /\ WF_vars(Tick)
    /\ \A c \in CallIds, i \in ProbeIds : WF_vars(ProbeTimesOut(c, i))

SpecLive == InitLive /\ [][Next]_vars /\ Fairness

\* MaxOverlap /obs/healthgraph requests, possibly in flight together, and the
\* /obs/query requests, against a registry of two targets; every target either
\* answers {status: "ok"}, refuses the connection or does not answer in time.
OverlapIds == 1..MaxOverlap
OverlapEnvs == { <<"a","=","u",",","b","=","v">> }
OverlapBody == [kind |-> "object", has |-> TRUE, status |-> "ok"]
OverlapFailure == "connect ECONNREFUSED"

InitOverlap == InitFrom(OverlapEnvs, WarmCounts, OverlapIds)

NextOverlap ==
    \/ Tick
    \/ \E c \in OverlapIds : HealthgraphRequest(c)
    \/ \E c \in OverlapIds, i \in ProbeIds : ProbeResponds(c, i, OverlapBody)
    \/ \E c \in OverlapIds, i \in ProbeIds : ProbeFails(c, i, OverlapFailure)
    \/ \E c \in OverlapIds, i \in ProbeIds : ProbeTimesOut(c, i)
    \/ \E q \in QueryIds, query \in QueryParams : QueryRequest(q, query)
    \/ \E q \in QueryIds : QueryResolves(q)
    \/ \E q \in QueryIds : QueryRejects(q)

SpecOverlap == InitOverlap /\ [][NextOverlap]_vars

---------------------------------------------------------------------------
(* Properties of the log buffer.                                           *)

\* The last n elements of s.
LastN(s, n) == SubSeq(s, Len(s) - n + 1, Len(s))

\* The first n entries ever pushed.
Pushed(n) == SubSeq(appended, 1, n)

\* C1: in every reachable state, whatever addLog calls have been made (start of
\* the process, probe outcomes, query outcomes), logsBuffer holds at most
\* MAX_LOGS entries.
C1_AtMostMaxLogs == Len(logsBuffer) <= MAX_LOGS

\* More entries have been pushed than the buffer holds, and the buffer is full.
C1_Witness == Len(appended) > MAX_LOGS /\ Len(logsBuffer) = MAX_LOGS

\* C2: eviction is FIFO: after n pushes the buffer holds exactly the most recent
\* min(n, MAX_LOGS) pushed entries, in insertion order (so a push on a full
\* buffer removed the oldest entry and nothing else, a push on a buffer that is
\* not full removed nothing), and a listing shows them most recent first.
C2_Fifo ==
    /\ logsBuffer = LastN(appended, Min(Len(appended), MAX_LOGS))
    /\ logsResponse.sent =>
          logsResponse.items =
              Reverse(LastN(Pushed(logsResponse.at), Min(logsResponse.at, MAX_LOGS)))

\* Two entries have been evicted and the buffer was listed after that: the
\* listing starts with the newest entry and ends with the third one pushed.
C2_Witness ==
    /\ Len(appended) = MAX_LOGS + 2
    /\ logsResponse.sent
    /\ logsResponse.at = Len(appended)
    /\ logsResponse.items[1] = appended[MAX_LOGS + 2]
    /\ logsResponse.items[MAX_LOGS] = appended[3]

\* C3: a listing taken after K pushes, K <= MAX_LOGS, returns exactly K entries
\* in reverse insertion order, the most recent first.
C3_ListingReversed ==
    (logsResponse.sent /\ logsResponse.at <= MAX_LOGS) =>
        /\ Len(logsResponse.items) = logsResponse.at
        /\ \A k \in 1..logsResponse.at :
              logsResponse.items[k] = appended[logsResponse.at + 1 - k]

\* A listing of three entries, the first pushed (the startup entry) last.
C3_Witness ==
    /\ logsResponse.sent
    /\ logsResponse.at = 3
    /\ logsResponse.items[3] = LogRecord(StartupEntry, 0)
    /\ logsResponse.items[1] # logsResponse.items[3]

\* C4: the listing is a copy: a step that produces a listing leaves the buffer
\* as it was, and a step that changes the buffer leaves the listing already
\* sent as it was.
C4_ListingIsCopy ==
    [][ /\ logsResponse' # logsResponse => logsBuffer' = logsBuffer
        /\ logsBuffer' # logsBuffer => logsResponse' = logsResponse ]_vars

\* A listing of at least two entries was sent and an entry was pushed after it:
\* the listing still shows the buffer as it was, which is still stored oldest
\* first.
C4_Witness ==
    /\ logsResponse.sent
    /\ logsResponse.at >= 2
    /\ logsResponse.at < Len(appended)
    /\ Len(appended) <= MAX_LOGS
    /\ logsResponse.items = Reverse(Pushed(logsResponse.at))
    /\ logsBuffer = appended

---------------------------------------------------------------------------
(* Properties of the health aggregation.                                   *)

Services(c) == calls[c].response.services
Responded(c) == calls[c].st = "responded"

\* Positions in appended of the entries pushed by probe i of request c.
EntriesOf(c, i) == { k \in 1..Len(appended) : origin[k] = <<"probe", c, i>> }

\* Some way for the pending probe i of request c to settle.
ProbeSettles(c, i) ==
    \/ \E data \in Bodies : ProbeResponds(c, i, data)
    \/ \E m \in FailureMessages : ProbeFails(c, i, m)
    \/ ProbeTimesOut(c, i)

\* C5: for a registry of N targets the aggregation returns exactly N outcomes,
\* and outcome i carries the name and url of target i of the registry, in
\* whatever order the probes completed.
C5_RegistryOrder ==
    \A c \in CallIds :
        Responded(c) =>
            /\ Len(Services(c)) = Len(parsedTargets)
            /\ \A i \in 1..Len(parsedTargets) :
                  /\ Services(c)[i].name = parsedTargets[i].name
                  /\ Services(c)[i].url = parsedTargets[i].baseUrl

\* A response for two targets of different names whose second probe completed
\* first.
C5_Witness ==
    \E c \in CallIds :
        /\ Responded(c)
        /\ calls[c].order = <<2, 1>>
        /\ parsedTargets[1].name # parsedTargets[2].name
        /\ Services(c)[1].name = parsedTargets[1].name

\* C6: the response is produced only once every probe of the request has reached
\* a terminal state: no response exists while a probe is pending, and the
\* response holds the outcome of every probe.
C6_WaitsForAll ==
    \A c \in CallIds :
        calls[c].response.sent =>
            /\ Len(calls[c].probes) = Len(parsedTargets)
            /\ \A i \in 1..Len(calls[c].probes) :
                  /\ calls[c].probes[i].state # "pending"
                  /\ Services(c)[i] = calls[c].probes[i].value

\* A response sent after the first probe had failed and the second had then
\* succeeded: the request answered on neither the first failure nor the first
\* settlement.
C6_Witness ==
    \E c \in CallIds :
        /\ Responded(c)
        /\ calls[c].order = <<1, 2>>
        /\ Services(c)[1].status = "down"
        /\ Services(c)[2].status = "ok"

\* C7: probes are independent: once a request is being served all its N probes
\* have been issued, at the time of the request; a pending probe can settle
\* whatever the state of the others; a step settles one probe only and never
\* changes the outcome of a probe that has settled.
C7_Issued ==
    \A c \in CallIds :
        calls[c].st # "idle" =>
            /\ Len(calls[c].probes) = Len(parsedTargets)
            /\ \A i, j \in 1..Len(calls[c].probes) :
                  calls[c].probes[i].start = calls[c].probes[j].start

C7_CanSettle ==
    \A c \in CallIds : \A i \in 1..Len(calls[c].probes) :
        calls[c].probes[i].state = "pending" => ENABLED ProbeSettles(c, i)

C7_OthersUntouched ==
    \A c \in CallIds : \A i \in 1..Len(calls[c].probes) :
        /\ calls[c].probes[i].state # "pending" =>
              calls'[c].probes[i] = calls[c].probes[i]
        /\ calls'[c].probes[i] # calls[c].probes[i] =>
              \A j \in 1..Len(calls[c].probes) :
                  j # i => calls'[c].probes[j] = calls[c].probes[j]

C7_Independent == [](C7_Issued /\ C7_CanSettle) /\ [][C7_OthersUntouched]_vars

\* One probe has timed out while the other, still pending past the timeout,
\* is yet to settle.
C7_Witness ==
    \E c \in CallIds :
        /\ calls[c].st = "running"
        /\ Len(calls[c].probes) = 2
        /\ calls[c].probes[1].state = "fulfilled"
        /\ calls[c].probes[1].value.status = "down"
        /\ calls[c].probes[1].value.error = TimeoutMessage
        /\ calls[c].probes[2].state = "pending"
        /\ ENABLED ProbeSettles(c, 2)

\* C8: a request never ends in a fault, whatever the probes' outcomes: it is
\* waiting for a probe or it has answered {timestamp, services} with N outcomes.
C8_NeverFaults ==
    \A c \in CallIds :
        /\ calls[c].st # "faulted"
        /\ calls[c].st = "running" =>
              \E i \in 1..Len(calls[c].probes) : calls[c].probes[i].state = "pending"
        /\ Responded(c) =>
              /\ calls[c].response.sent
              /\ calls[c].response.timestamp \in 0..now
              /\ Len(Services(c)) = Len(parsedTargets)

\* A response whose probes all failed, one by a timeout and one before it.
C8_Witness ==
    \E c \in CallIds :
        /\ Responded(c)
        /\ Len(Services(c)) = 2
        /\ Services(c)[1].status = "down"
        /\ Services(c)[1].error = TimeoutMessage
        /\ Services(c)[2].status = "down"
        /\ Services(c)[2].error = "connect ECONNREFUSED"

\* Positions in appended of the entries pushed by the probes of request c.
EntriesOfCall(c) ==
    { k \in 1..Len(appended) : origin[k][1] = "probe" /\ origin[k][2] = c }

\* C9: every aggregation pushes exactly one log entry per target (N entries for
\* N targets), each tagged with its target's name as service, whatever the
\* probes' outcomes.
C9_OneEntryPerTarget ==
    \A c \in CallIds :
        Responded(c) =>
            /\ Cardinality(EntriesOfCall(c)) = Len(parsedTargets)
            /\ \A i \in 1..Len(parsedTargets) :
                  /\ Cardinality(EntriesOf(c, i)) = 1
                  /\ \A k \in EntriesOf(c, i) :
                        appended[k].service = parsedTargets[i].name

\* The probe failed in the sense of C10: the request was rejected (timeout,
\* connection refused, non-2xx) or the body of the answer is malformed.
ProbeFailed(reply) == ~reply.ok \/ reply.data.kind = "text"

\* C10: a probe that fails (timeout, connection refused, non-2xx answer,
\* malformed body) yields an outcome with status "down" and a failure
\* description in error and pushes an "error" entry tagged with the target's
\* name; a probe that succeeds pushes an "info" entry and its outcome has no
\* error field.
C10_FailureIsDown ==
    \A c \in CallIds : \A i \in 1..Len(calls[c].probes) :
        LET probe == calls[c].probes[i]
        IN  probe.state # "pending" =>
                IF ProbeFailed(probe.reply)
                THEN /\ probe.value.status = "down"
                     /\ "error" \in DOMAIN probe.value
                     /\ probe.value.error # ""
                     /\ \A k \in EntriesOf(c, i) :
                           /\ appended[k].level = "error"
                           /\ appended[k].service = parsedTargets[i].name
                ELSE /\ "error" \notin DOMAIN probe.value
                     /\ \A k \in EntriesOf(c, i) : appended[k].level = "info"

---------------------------------------------------------------------------
(* Status of a successful probe.                                           *)

\* The settled probes whose request got a 2xx answer.
Succeeded(c, i) ==
    /\ i \in 1..Len(calls[c].probes)
    /\ calls[c].probes[i].state = "fulfilled"
    /\ calls[c].probes[i].reply.ok

\* The body has a status field.
HasStatusField(data) == data.kind = "object" /\ data.has

\* C11 as stated: on a successful probe the outcome's status is exactly the
\* value of the body's status field, and it is "unknown" if and only if the
\* field is absent.
C11_PassThrough ==
    \A c \in CallIds : \A i \in ProbeIds :
        Succeeded(c, i) =>
            LET probe == calls[c].probes[i]
            IN  /\ HasStatusField(probe.reply.data) =>
                      probe.value.status = probe.reply.data.status
                /\ probe.value.status = "unknown" <=>
                      ~HasStatusField(probe.reply.data)

\* C11 as amended: the outcome's status is the value of the body's status field,
\* unchanged, when the field is present and not empty, and "unknown" when the
\* field is absent or empty.
C11_PassThroughUnlessFalsy ==
    \A c \in CallIds : \A i \in ProbeIds :
        Succeeded(c, i) =>
            LET probe == calls[c].probes[i]
                data  == probe.reply.data
            IN  IF HasStatusField(data) /\ data.status # ""
                THEN probe.value.status = data.status
                ELSE probe.value.status = "unknown"

\* One answer reported "degraded" and was passed through; the other had an
\* empty status field and came out as "unknown".
C11_Witness ==
    \E c \in CallIds :
        /\ Succeeded(c, 1) /\ Succeeded(c, 2)
        /\ calls[c].probes[1].reply.data.status = "degraded"
        /\ calls[c].probes[1].value.status = "degraded"
        /\ HasStatusField(calls[c].probes[2].reply.data)
        /\ calls[c].probes[2].reply.data.status = ""
        /\ calls[c].probes[2].value.status = "unknown"

---------------------------------------------------------------------------
(* Termination of the aggregation.                                         *)

\* Probe i of request c was settled by the timeout.
TimedOut(c, i) ==
    /\ i \in 1..Len(calls[c].probes)
    /\ calls[c].probes[i].state # "pending"
    /\ ~calls[c].probes[i].reply.ok
    /\ calls[c].probes[i].reply.message = TimeoutMessage

\* C12: every aggregation that was triggered eventually responds, with every
\* probe settled: a probe is settled by the target's answer or, once
\* PROBE_TIMEOUT has elapsed without one, by the timeout, which makes its
\* outcome "down"; this holds even if no target ever answers.
C12_Completes ==
    \A c \in CallIds :
        calls[c].st = "running" ~>
            /\ calls[c].st = "responded"
            /\ \A i \in 1..Len(calls[c].probes) :
                  /\ calls[c].probes[i].state = "fulfilled"
                  /\ TimedOut(c, i) =>
                        /\ calls[c].probes[i].value.status = "down"
                        /\ now - calls[c].probes[i].start >= PROBE_TIMEOUT

\* An aggregation over two targets responded although neither target answered:
\* both probes were settled by the timeout.
C12_Witness ==
    \E c \in CallIds :
        /\ calls[c].st = "responded"
        /\ Len(calls[c].probes) = 2
        /\ TimedOut(c, 1) /\ TimedOut(c, 2)
        /\ \A i \in 1..2 : calls[c].response.services[i].status = "down"


---------------------------------------------------------------------------
(* Appends by overlapping requests.                                        *)

\* How many entries the history attributes to o.
PushesBy(o) == Cardinality({ k \in 1..Len(origin) : origin[k] = o })

\* The entries evicted so far.
Evicted == Len(appended) - Len(logsBuffer)

\* Every probe that has settled and every query whose upstream call has ended
\* has pushed exactly one entry, no one else has pushed any, and each entry
\* pushed is in the buffer, at its place, unless it has been evicted.
C13_NoneLostNoneTwice ==
    /\ Len(logsBuffer) <= MAX_LOGS
    /\ Len(origin) = Len(appended)
    /\ \A c \in DOMAIN calls : \A i \in ProbeIds :
          PushesBy(<<"probe", c, i>>) =
              IF i \in 1..Len(calls[c].probes) /\ calls[c].probes[i].state # "pending"
              THEN 1 ELSE 0
    /\ \A q \in QueryIds :
          PushesBy(<<"query", q>>) =
              IF queries[q].st = "done" /\ queries[q].upstream = 1 THEN 1 ELSE 0
    /\ \A k \in 1..Len(origin) :
          /\ origin[k][1] \in {"startup", "warmup", "probe", "query"}
          /\ origin[k][1] = "probe" =>
                origin[k][2] \in DOMAIN calls /\ origin[k][3] \in ProbeIds
          /\ origin[k][1] = "query" => origin[k][2] \in QueryIds
    /\ Evicted >= 0
    /\ \A k \in 1..Len(appended) : k > Evicted => logsBuffer[k - Evicted] = appended[k]

\* A step that changes the buffer is one whole append: one entry pushed at the
\* tail and, if that exceeds MAX_LOGS, the head removed.
C13_AppendIsAtomic ==
    logsBuffer' # logsBuffer =>
        /\ Len(appended') = Len(appended) + 1
        /\ SubSeq(appended', 1, Len(appended)) = appended
        /\ logsBuffer' =
              Append(IF Len(logsBuffer) = MAX_LOGS THEN Tail(logsBuffer) ELSE logsBuffer,
                     appended'[Len(appended')])

\* C13: appends by the probes of overlapping aggregations and by query-proxy
\* requests, in any interleaving, are atomic (push plus possible eviction), none
\* is lost or duplicated, and the buffer never exceeds MAX_LOGS between them.
C13_ConcurrentAppendSafe == []C13_NoneLostNoneTwice /\ [][C13_AppendIsAtomic]_vars

\* Two aggregations in flight together and a query have interleaved their
\* appends on a full buffer: request 1, request 2, the query, request 1 again.
C13_Witness ==
    /\ Len(appended) >= MAX_LOGS + 3
    /\ Len(logsBuffer) = MAX_LOGS
    /\ origin[Len(origin) - 3] = <<"probe", 1, 1>>
    /\ origin[Len(origin) - 2] = <<"probe", 2, 2>>
    /\ origin[Len(origin) - 1] = <<"query", 1>>
    /\ origin[Len(origin)] = <<"probe", 1, 2>>
    /\ calls[2].st = "running"

---------------------------------------------------------------------------
(* Properties of the target registry.                                      *)

\* The entries of a configuration string: its comma-separated parts, the empty
\* ones left out.
Entries(raw) == FilterBoolean(Split(raw, ","))

\* Name and URL of an entry: what stands before and after its first "=",
\* without the surrounding whitespace.
EntryName(pair) == Trim(SubSeq(pair, 1, IndexOf(pair, "=") - 1))
EntryUrl(pair) == Trim(SubSeq(pair, IndexOf(pair, "=") + 1, Len(pair)))

EntryMalformed(pair) ==
    \/ IndexOf(pair, "=") = 0
    \/ EntryName(pair) = <<>>
    \/ EntryUrl(pair) = <<>>

\* C14: parsing fails whenever an entry of the configuration string lacks a
\* "=" or has an empty name or an empty URL after trimming, and no target with
\* an empty name or an empty baseUrl is ever in the registry.
C14_RejectsMalformed ==
    /\ (\E k \in 1..Len(Entries(SERVICE_TARGETS)) :
            EntryMalformed(Entries(SERVICE_TARGETS)[k])) => pc = "crashed"
    /\ \A k \in 1..Len(parsedTargets) :
          parsedTargets[k].name # <<>> /\ parsedTargets[k].baseUrl # <<>>

\* C15: for a configuration string of well-formed pairs the registry holds one
\* target per pair, in the order of the string, with the pair's trimmed name
\* and trimmed URL.
C15_PreservesPairs ==
    LET entries == Entries(SERVICE_TARGETS)
    IN  (\A k \in 1..Len(entries) : ~EntryMalformed(entries[k])) =>
            /\ pc = "running"
            /\ parsedTargets =
                  [k \in 1..Len(entries) |->
                      [name |-> EntryName(entries[k]), baseUrl |-> EntryUrl(entries[k])]]

\* C16: no two targets of the registry have the same name.
C16_UniqueNames ==
    \A j, k \in 1..Len(parsedTargets) :
        j # k => parsedTargets[j].name # parsedTargets[k].name

---------------------------------------------------------------------------
(* No state between aggregations.                                          *)

Settled(c, i) ==
    /\ i \in 1..Len(calls[c].probes)
    /\ calls[c].probes[i].state = "fulfilled"

\* Requests c and d got the same answers, target by target.
SameAnswers(c, d) ==
    /\ Len(calls[c].probes) = Len(calls[d].probes)
    /\ \A i \in 1..Len(calls[c].probes) :
          calls[c].probes[i].reply = calls[d].probes[i].reply

\* Two aggregations that got the same answers responded with outcomes of equal
\* name, url and status at every index; the name and url of an outcome are
\* those of the registry at its index, and its status is determined by the
\* answer received for it in that call, whatever was received before.
C17_SameAnswersSameOutcomes ==
    /\ \A c, d \in DOMAIN calls :
          (Responded(c) /\ Responded(d) /\ SameAnswers(c, d)) =>
              /\ Len(Services(c)) = Len(Services(d))
              /\ \A i \in 1..Len(Services(c)) :
                    /\ Services(c)[i].name = Services(d)[i].name
                    /\ Services(c)[i].url = Services(d)[i].url
                    /\ Services(c)[i].status = Services(d)[i].status
    /\ \A c, d \in DOMAIN calls : \A i, j \in ProbeIds :
          (Settled(c, i) /\ Settled(d, j)) =>
              /\ calls[c].probes[i].value.name = parsedTargets[i].name
              /\ calls[c].probes[i].value.url = parsedTargets[i].baseUrl
              /\ calls[c].probes[i].reply = calls[d].probes[j].reply =>
                    calls[c].probes[i].value.status = calls[d].probes[j].value.status

\* C17: aggregation keeps no state between calls: the registry never changes,
\* and consecutive (or overlapping) aggregations whose targets answer the same
\* way produce outcomes with equal name, url and status at every index, each
\* outcome depending only on the registry and on the answer received in its
\* own call.
C17_Stateless == []C17_SameAnswersSameOutcomes /\ [][parsedTargets' = parsedTargets]_vars

\* Two aggregations one after the other, the second answered after the first
\* had logged both its probes; in both the first target answered "ok" and the
\* second refused the connection, and both responded ok, down.
C17_Witness ==
    /\ Responded(1) /\ Responded(2)
    /\ SameAnswers(1, 2)
    /\ Len(Services(1)) = 2
    /\ Services(1)[1].status = "ok" /\ Services(2)[1].status = "ok"
    /\ Services(1)[2].status = "down" /\ Services(2)[2].status = "down"
    /\ SubSeq(origin, Len(origin) - 3, Len(origin)) =
          << <<"probe", 1, 1>>, <<"probe", 1, 2>>, <<"probe", 2, 1>>, <<"probe", 2, 2>> >>

---------------------------------------------------------------------------
(* Properties of the PromQL proxy.                                         *)

\* Positions in appended of the entries pushed by query request q.
EntriesOfQuery(q) == { k \in 1..Len(appended) : origin[k] = <<"query", q>> }

\* C18: a query request that reaches Prometheus makes exactly one upstream call
\* (no retry) and pushes exactly one entry, once the call has ended: an "info"
\* entry when the call succeeded and its answer is relayed (200), an "error"
\* entry when it failed and the error object is returned (500).
C18_OneCallOneEntry ==
    \A q \in QueryIds :
        /\ queries[q].upstream \in {0, 1}
        /\ queries[q].upstream = 1 <=>
              (queries[q].st \in {"awaiting", "done"} /\ queries[q].query # "")
        /\ queries[q].st = "awaiting" => EntriesOfQuery(q) = {}
        /\ (queries[q].st = "done" /\ queries[q].upstream = 1) =>
              /\ Cardinality(EntriesOfQuery(q)) = 1
              /\ queries[q].status \in {200, 500}
              /\ \A k \in EntriesOfQuery(q) :
                    /\ appended[k].level = "info" <=> queries[q].status = 200
                    /\ appended[k].level = "error" <=> queries[q].status = 500
                    /\ k > Evicted => logsBuffer[k - Evicted] = appended[k]

\* A query reached Prometheus, the call failed, the caller got a 500 and the
\* newest entry of the buffer is the one "error" entry of that request.
C18_Witness ==
    \E q \in QueryIds :
        /\ queries[q].st = "done"
        /\ queries[q].upstream = 1
        /\ queries[q].status = 500
        /\ origin[Len(origin)] = <<"query", q>>
        /\ logsBuffer[Len(logsBuffer)].level = "error"

---------------------------------------------------------------------------
(* The startup entry.                                                      *)

StartupRecord == LogRecord(StartupEntry, 0)

\* C19: once the process has started the buffer is never empty:
\* "Gateway started" is pushed before any request is served, so a handler
\* always sees 1 <= logsBuffer.length <= MAX_LOGS; that entry is the oldest of
\* the buffer until MAX_LOGS further pushes have been made, and is gone after.
C19_StartupEntryFirst ==
    pc = "running" =>
        /\ 1 <= Len(logsBuffer) /\ Len(logsBuffer) <= MAX_LOGS
        /\ Len(appended) >= 1
        /\ appended[1] = StartupRecord
        /\ origin[1] = <<"startup">>
        /\ Len(appended) - 1 < MAX_LOGS => logsBuffer[1] = StartupRecord
        /\ Len(appended) - 1 >= MAX_LOGS =>
              \A k \in 1..Len(logsBuffer) : logsBuffer[k] # StartupRecord

\* The buffer is full after MAX_LOGS - 1 pushes since the start, and a listing
\* taken then ends with the startup entry, still the oldest.
C19_Witness ==
    /\ pc = "running"
    /\ Len(appended) = MAX_LOGS
    /\ Len(logsBuffer) = MAX_LOGS
    /\ logsBuffer[1] = StartupRecord
    /\ logsResponse.sent
    /\ logsResponse.at = MAX_LOGS
    /\ logsResponse.items[MAX_LOGS] = StartupRecord

---------------------------------------------------------------------------
(* Order of the entries of one aggregation.                                *)

\* The position in appended of the entry pushed by probe i of request c.
EntryOf(c, i) == CHOOSE k \in 1..Len(appended) : origin[k] = <<"probe", c, i>>

\* The probes of a request that settled have their entries in the buffer's
\* insertion order in the order in which they settled, and a request that has
\* responded has the entries of all its probes.
C20_InCompletionOrder ==
    \A c \in DOMAIN calls :
        /\ \A a \in 1..Len(calls[c].order) :
              /\ EntriesOf(c, calls[c].order[a]) # {}
              /\ EntryOf(c, calls[c].order[a]) > Evicted =>
                    logsBuffer[EntryOf(c, calls[c].order[a]) - Evicted] =
                        appended[EntryOf(c, calls[c].order[a])]
        /\ \A a, b \in 1..Len(calls[c].order) :
              a < b => EntryOf(c, calls[c].order[a]) < EntryOf(c, calls[c].order[b])
        /\ Responded(c) =>
              /\ Len(calls[c].order) = Len(parsedTargets)
              /\ \A i \in 1..Len(parsedTargets) : EntriesOf(c, i) # {}

\* The step in which a request responds is the step in which its last probe
\* settles, after that probe's entry has been pushed.
C20_EntriesBeforeResponse ==
    \A c \in DOMAIN calls :
        (~Responded(c) /\ calls'[c].st = "responded") =>
            /\ Cardinality({ k \in 1..Len(origin') :
                                origin'[k][1] = "probe" /\ origin'[k][2] = c })
                   = Len(parsedTargets)
            /\ Len(parsedTargets) > 0 =>
                  /\ origin'[Len(origin')][1] = "probe"
                  /\ origin'[Len(origin')][2] = c
                  /\ logsBuffer'[Len(logsBuffer')] = appended'[Len(appended')]

\* C20: the entries of one aggregation are pushed in the order in which its
\* probes settle, whatever the registry order, and all N of them are pushed
\* before the response is produced.
C20_CompletionOrder == []C20_InCompletionOrder /\ [][C20_EntriesBeforeResponse]_vars

\* The second target of the registry settled before the first: the request has
\* responded, and the entry of the second target precedes that of the first at
\* the tail of the buffer.
C20_Witness ==
    \E c \in DOMAIN calls :
        /\ Responded(c)
        /\ calls[c].order = <<2, 1>>
        /\ origin[Len(origin) - 1] = <<"probe", c, 2>>
        /\ origin[Len(origin)] = <<"probe", c, 1>>
        /\ logsBuffer[Len(logsBuffer) - 1].service = parsedTargets[2].name
        /\ logsBuffer[Len(logsBuffer)].service = parsedTargets[1].name
        /\ parsedTargets[1].name # parsedTargets[2].name

---------------------------------------------------------------------------
(* A query request without a query.                                        *)

\* Request q was made without a query parameter, or with an empty one.
Rejected400(q) == queries[q].st # "idle" /\ queries[q].query = ""

\* A request without a query is answered at once with 400, has made no
\* upstream call and has no entry in the push history.
C21_RejectedState ==
    \A q \in QueryIds :
        Rejected400(q) =>
            /\ queries[q].st = "done"
            /\ queries[q].status = 400
            /\ queries[q].upstream = 0
            /\ EntriesOfQuery(q) = {}

\* The step that rejects a request leaves the buffer and the push history as
\* they were, and no later step makes an upstream call for it or changes its
\* answer.
C21_RejectionFrame ==
    \A q \in QueryIds :
        /\ (queries[q].st = "idle" /\ queries'[q].st # "idle" /\ queries'[q].query = "") =>
              /\ logsBuffer' = logsBuffer
              /\ appended' = appended
              /\ origin' = origin
        /\ Rejected400(q) => queries'[q] = queries[q]

\* C21: a query request with a missing or empty query parameter is rejected
\* with 400 without any upstream call, and it leaves the log buffer unchanged:
\* no entry is pushed for it.
C21_RejectedWithoutTrace == []C21_RejectedState /\ [][C21_RejectionFrame]_vars

\* A request without a query has been rejected, in a behaviour in which the
\* buffer is full and has evicted entries: its newest entry is a probe's, and
\* none is the request's.
C21_Witness ==
    \E q \in QueryIds :
        /\ Rejected400(q)
        /\ queries[q].status = 400
        /\ EntriesOfQuery(q) = {}
        /\ Len(logsBuffer) = MAX_LOGS
        /\ Len(appended) > MAX_LOGS
        /\ origin[Len(origin)][1] = "probe"
        /\ logsBuffer[Len(logsBuffer)] = appended[Len(appended)]

====
